---- MODULE Spec2Model ----
(***************************************************************************)
(* PCOSDetect (src/pcos.py): a Streamlit script that is re-run from top to *)
(* bottom for every user interaction of every browser session.  All the    *)
(* sessions of the process share the SQLite table `patients` and the       *)
(* scratch directory.  One run of the script is modelled as the steps      *)
(*   Submit (lines 132-153, 186-190)  ->  count_follicles (157)  ->        *)
(*   model.predict (160-163)  ->  update_patient_record + comparison       *)
(*   (165-185)  ->  Finish (192-193),                                      *)
(* cut where the run touches the shared store or an external model, so     *)
(* that the runs of two sessions interleave as the threads of the server   *)
(* do.                                                                     *)
(*                                                                         *)
(* Text is a sequence of one-character strings, so that str.strip() and    *)
(* str.lower() are computed and not assumed.  A score is an integer number *)
(* of hundredths (0.50 is 50), a confidence is in the same unit            *)
(* (score * 100), the clock counts half seconds.                           *)
(***************************************************************************)
EXTENDS Integers, Sequences, FiniteSets, TLC

\* ------------------------------------------------------------ bounds
\* Latest instant of the wall clock that is explored, in ticks.
MaxClock == 2
\* Number of script runs (over all sessions) that are explored.
MaxRuns == 2

\* ------------------------------------------------------------ constants
\* line 153: 18 <= patient_age <= 45
MinAge == 18
MaxAge == 45
\* line 162: prediction[0][0] > 0.5, in hundredths
Threshold == 50
\* line 163: prediction[0][0] * 100
Percent == 100
\* line 80: "%Y-%m-%d %H:%M:%S" keeps whole seconds; a second is two ticks
TicksPerSecond == 2

\* ------------------------------------------------------------ inputs
Sessions == {"s1", "s2"}
\* What the two text inputs can hold before .strip()
RawIds == { <<>>, <<"A">>, <<" ", "B">> }
RawNames == { <<>>, <<"J">>, <<" ", "j">>, <<"S">> }
\* What st.number_input hands to the script; line 153 checks it again
AgeInputs == {17, 18, 46}
\* len(results[0].boxes) of a detection that succeeds
FollicleCounts == {2}
\* prediction[0][0] of a classification that succeeds, in hundredths
Scores == {50, 51}

\* ------------------------------------------------------------ text
Whitespace == {" "}

RECURSIVE LStrip(_)
LStrip(s) ==
    IF s # <<>> /\ Head(s) \in Whitespace THEN LStrip(Tail(s)) ELSE s

RECURSIVE RStrip(_)
RStrip(s) ==
    IF s # <<>> /\ s[Len(s)] \in Whitespace
    THEN RStrip(SubSeq(s, 1, Len(s) - 1))
    ELSE s

\* str.strip()
Strip(s) == RStrip(LStrip(s))

LowerChar(c) ==
    CASE c = "J" -> "j"
      [] c = "S" -> "s"
      [] c = "A" -> "a"
      [] c = "B" -> "b"
      [] OTHER -> c

\* str.lower()
Lower(s) == [i \in 1..Len(s) |-> LowerChar(s[i])]

\* ------------------------------------------------------------ record store
\* The rows of table patients whose primary key is pid
RowsOf(table, pid) == {r \in table : r.patient_id = pid}

\* get_patient_record: SELECT ... WHERE patient_id = ?, fetchone().
\* The result is the empty set for None and {row} for a row.
get_patient_record(table, pid) ==
    IF RowsOf(table, pid) = {} THEN {}
    ELSE {CHOOSE r \in RowsOf(table, pid) : TRUE}

\* datetime.now().strftime("%Y-%m-%d %H:%M:%S"): the time cut to the second
Strftime(t) == t \div TicksPerSecond

\* A plain INSERT of the row, keeping what is there.
InsertOrReplace_Append(table, row) == table \cup {row}

\* INSERT OR REPLACE under PRIMARY KEY(patient_id): the rows in conflict with
\* the new row are deleted, then the row is inserted.
InsertOrReplace(table, row) ==
    (table \ RowsOf(table, row.patient_id)) \cup {row}

\* The tuple bound by update_patient_record, with two columns exchanged.
MakeRow_Swapped(pid, name, age, prediction, conf, count, now) ==
    [patient_id |-> pid, name |-> name, age |-> count,
     last_prediction |-> prediction, confidence |-> conf,
     follicle_count |-> age, last_update |-> Strftime(now)]

\* The tuple bound by update_patient_record (lines 80-85)
MakeRow(pid, name, age, prediction, conf, count, now) ==
    [patient_id |-> pid, name |-> name, age |-> age,
     last_prediction |-> prediction, confidence |-> conf,
     follicle_count |-> count, last_update |-> Strftime(now)]

\* update_patient_record (lines 77-87)
update_patient_record(table, pid, name, age, prediction, conf, count, now) ==
    InsertOrReplace(table, MakeRow(pid, name, age, prediction, conf, count, now))

\* ------------------------------------------------------------ session flow
\* The guard with the comparison inverted.
NameMismatch_Inverted(prev, name) ==
    prev # {} /\ \E r \in prev : Lower(Strip(r.name)) = Lower(name)

\* The guard compares the texts as they are.
NameMismatch_Exact(prev, name) ==
    prev # {} /\ \E r \in prev : r.name # name

\* line 139: prev_record and prev_record[1].strip().lower() != patient_name.lower()
NameMismatch(prev, name) ==
    prev # {} /\ \E r \in prev : Lower(Strip(r.name)) # Lower(name)

\* Only the lower end of the range is checked.
AgeInRange_LowerOnly(age) == MinAge <= age

\* line 153: 18 <= patient_age <= 45
AgeInRange(age) == MinAge <= age /\ age <= MaxAge

\* The threshold is not strict.
Label_NotStrict(score) ==
    IF score >= Threshold THEN "PCOS Detected" ELSE "No PCOS Detected"

\* line 162
Label(score) ==
    IF score > Threshold THEN "PCOS Detected" ELSE "No PCOS Detected"

\* line 163
Confidence(score) == score * Percent

\* lines 170-185: the previous-result block
Comparison(prev, label) ==
    IF prev = {} THEN "none"
    ELSE IF \E r \in prev : r.last_prediction # label THEN "changed"
    ELSE "consistent"

\* ------------------------------------------------------------ state
VARIABLES
    db,               \* table patients of patients.db: a set of rows
    scratch,          \* the patient ids that have a <id>_uploaded.png in tempdir
    clock,            \* the last instant datetime.now() returned, in ticks
    runs,             \* script runs started so far
    pc,               \* where each session's run of the script is
    patient_id,       \* line 132, stripped
    patient_name,     \* line 133, stripped
    patient_age,      \* line 135
    prev_record,      \* line 137: {} for None, {row} for a row
    follicle_count,   \* line 157
    prediction,       \* line 161: prediction[0][0], in hundredths
    result,           \* line 162
    confidence,       \* line 163
    comparison,       \* lines 170-185: "none", "consistent" or "changed"
    rows_at_read,     \* the rows the store held for patient_id when the run began
    detect_calls,     \* calls of count_follicles in the run
    predict_calls,    \* calls of model.predict in the run
    update_calls,     \* calls of update_patient_record in the run
    image_saved,      \* the run executed img.save(temp_path), line 149
    adapter_failed    \* an adapter raised in the run

shared == <<db, scratch, clock, runs>>
inputs == <<patient_id, patient_name, patient_age, prev_record, rows_at_read>>
locals == <<follicle_count, prediction, result, confidence, comparison>>
effects == <<detect_calls, predict_calls, update_calls, image_saved, adapter_failed>>
vars == <<shared, pc, inputs, locals, effects>>

\* Where a run stops: every path of the script ends at lines 192-193.
Terminal == {"blocked", "missing_fields", "age_warning", "waiting",
             "aborted", "success"}

Init ==
    /\ db = {}
    /\ scratch = {}
    /\ clock = 0
    /\ runs = 0
    /\ pc = [s \in Sessions |-> "idle"]
    /\ patient_id = [s \in Sessions |-> <<>>]
    /\ patient_name = [s \in Sessions |-> <<>>]
    /\ patient_age = [s \in Sessions |-> MinAge]
    /\ prev_record = [s \in Sessions |-> {}]
    /\ rows_at_read = [s \in Sessions |-> {}]
    /\ follicle_count = [s \in Sessions |-> 0]
    /\ prediction = [s \in Sessions |-> 0]
    /\ result = [s \in Sessions |-> ""]
    /\ confidence = [s \in Sessions |-> 0]
    /\ comparison = [s \in Sessions |-> "none"]
    /\ detect_calls = [s \in Sessions |-> 0]
    /\ predict_calls = [s \in Sessions |-> 0]
    /\ update_calls = [s \in Sessions |-> 0]
    /\ image_saved = [s \in Sessions |-> FALSE]
    /\ adapter_failed = [s \in Sessions |-> FALSE]

\* ------------------------------------------------------------ the script
\* No run stands at its end.  The end of the script (lines 192-193) reads and
\* writes nothing that is shared, so a run that has reached it leaves it
\* (Finish) before any other session moves: every interleaving of the steps
\* that touch the store is kept.
NoneAtEnd == \A t \in Sessions : pc[t] \notin Terminal

\* Lines 132-153 and 186-190 of one run: the widgets are read, the previous
\* record is fetched, the identity guard decides, the uploaded image is saved
\* to scratch storage, the age is checked and the button is consulted.
Submit(s) ==
    /\ NoneAtEnd
    /\ pc[s] = "idle"
    /\ runs < MaxRuns
    /\ runs' = runs + 1
    /\ \E raw_id \in RawIds, raw_name \in RawNames, age \in AgeInputs,
          uploaded_file \in BOOLEAN, button \in BOOLEAN :
        LET pid == Strip(raw_id)
            name == Strip(raw_name)
            prev == IF pid # <<>> /\ name # <<>>
                    THEN get_patient_record(db, pid) ELSE {}
            blocked == NameMismatch(prev, name)
            proceed == ~blocked /\ uploaded_file /\ pid # <<>> /\ name # <<>>
        IN  /\ patient_id' = [patient_id EXCEPT ![s] = pid]
            /\ patient_name' = [patient_name EXCEPT ![s] = name]
            /\ patient_age' = [patient_age EXCEPT ![s] = age]
            /\ prev_record' = [prev_record EXCEPT ![s] = prev]
            /\ rows_at_read' = [rows_at_read EXCEPT ![s] = RowsOf(db, pid)]
            /\ image_saved' = [image_saved EXCEPT ![s] = proceed]
            /\ scratch' = IF proceed THEN scratch \cup {pid} ELSE scratch
            /\ pc' = [pc EXCEPT ![s] =
                        IF blocked THEN "blocked"
                        ELSE IF proceed
                             THEN IF AgeInRange(age)
                                  THEN IF button THEN "detect" ELSE "waiting"
                                  ELSE "age_warning"
                             ELSE IF uploaded_file THEN "missing_fields"
                                  ELSE "waiting"]
    /\ UNCHANGED <<db, clock, locals, detect_calls, predict_calls,
                   update_calls, adapter_failed>>

\* Line 157, count_follicles returns len(results[0].boxes).
DetectOk(s) ==
    /\ NoneAtEnd
    /\ pc[s] = "detect"
    /\ \E n \in FollicleCounts :
         follicle_count' = [follicle_count EXCEPT ![s] = n]
    /\ detect_calls' = [detect_calls EXCEPT ![s] = @ + 1]
    /\ pc' = [pc EXCEPT ![s] = "classify"]
    /\ UNCHANGED <<shared, inputs, prediction, result, confidence, comparison,
                   predict_calls, update_calls, image_saved, adapter_failed>>

\* Line 157, yolo_model.predict raises: the exception ends the run.
DetectFail(s) ==
    /\ NoneAtEnd
    /\ pc[s] = "detect"
    /\ detect_calls' = [detect_calls EXCEPT ![s] = @ + 1]
    /\ adapter_failed' = [adapter_failed EXCEPT ![s] = TRUE]
    /\ pc' = [pc EXCEPT ![s] = "aborted"]
    /\ UNCHANGED <<shared, inputs, locals, predict_calls, update_calls,
                   image_saved>>

\* Lines 160-163: the classifier returns a score; label and confidence.
ClassifyOk(s) ==
    /\ NoneAtEnd
    /\ pc[s] = "classify"
    /\ \E sc \in Scores :
         /\ prediction' = [prediction EXCEPT ![s] = sc]
         /\ result' = [result EXCEPT ![s] = Label(sc)]
         /\ confidence' = [confidence EXCEPT ![s] = Confidence(sc)]
    /\ predict_calls' = [predict_calls EXCEPT ![s] = @ + 1]
    /\ pc' = [pc EXCEPT ![s] = "update"]
    /\ UNCHANGED <<shared, inputs, follicle_count, comparison, detect_calls,
                   update_calls, image_saved, adapter_failed>>

\* The failure is caught, a score of 0 stands in and the run goes on.
ClassifyFail_Swallowed(s) ==
    /\ NoneAtEnd
    /\ pc[s] = "classify"
    /\ prediction' = [prediction EXCEPT ![s] = 0]
    /\ result' = [result EXCEPT ![s] = Label(0)]
    /\ confidence' = [confidence EXCEPT ![s] = Confidence(0)]
    /\ predict_calls' = [predict_calls EXCEPT ![s] = @ + 1]
    /\ adapter_failed' = [adapter_failed EXCEPT ![s] = TRUE]
    /\ pc' = [pc EXCEPT ![s] = "update"]
    /\ UNCHANGED <<shared, inputs, follicle_count, comparison, detect_calls,
                   update_calls, image_saved>>

\* Line 161, model.predict raises: the exception ends the run.
ClassifyFail(s) ==
    /\ NoneAtEnd
    /\ pc[s] = "classify"
    /\ predict_calls' = [predict_calls EXCEPT ![s] = @ + 1]
    /\ adapter_failed' = [adapter_failed EXCEPT ![s] = TRUE]
    /\ pc' = [pc EXCEPT ![s] = "aborted"]
    /\ UNCHANGED <<shared, inputs, locals, detect_calls, update_calls,
                   image_saved>>

\* Lines 165-185: the upsert, then the comparison with prev_record.
\* datetime.now() (line 80) is the one place the script reads the clock: the
\* call finds it at an instant `now` not before the last instant it was read.
Update(s) ==
    /\ NoneAtEnd
    /\ pc[s] = "update"
    /\ \E now \in clock..MaxClock :
        /\ clock' = now
        /\ db' = update_patient_record(db, patient_id[s], patient_name[s],
                                       patient_age[s], result[s], confidence[s],
                                       follicle_count[s], now)
    /\ update_calls' = [update_calls EXCEPT ![s] = @ + 1]
    /\ comparison' = [comparison EXCEPT ![s] = Comparison(prev_record[s], result[s])]
    /\ pc' = [pc EXCEPT ![s] = "success"]
    /\ UNCHANGED <<scratch, runs, inputs, follicle_count, prediction,
                   result, confidence, detect_calls, predict_calls,
                   image_saved, adapter_failed>>

\* Lines 192-193: the run is over; the next interaction starts a new run,
\* in which every name of the script is bound afresh.
Finish(s) ==
    /\ pc[s] \in Terminal
    /\ pc' = [pc EXCEPT ![s] = "idle"]
    /\ patient_id' = [patient_id EXCEPT ![s] = <<>>]
    /\ patient_name' = [patient_name EXCEPT ![s] = <<>>]
    /\ patient_age' = [patient_age EXCEPT ![s] = MinAge]
    /\ prev_record' = [prev_record EXCEPT ![s] = {}]
    /\ rows_at_read' = [rows_at_read EXCEPT ![s] = {}]
    /\ follicle_count' = [follicle_count EXCEPT ![s] = 0]
    /\ prediction' = [prediction EXCEPT ![s] = 0]
    /\ result' = [result EXCEPT ![s] = ""]
    /\ confidence' = [confidence EXCEPT ![s] = 0]
    /\ comparison' = [comparison EXCEPT ![s] = "none"]
    /\ detect_calls' = [detect_calls EXCEPT ![s] = 0]
    /\ predict_calls' = [predict_calls EXCEPT ![s] = 0]
    /\ update_calls' = [update_calls EXCEPT ![s] = 0]
    /\ image_saved' = [image_saved EXCEPT ![s] = FALSE]
    /\ adapter_failed' = [adapter_failed EXCEPT ![s] = FALSE]
    /\ UNCHANGED shared

Next ==
    \/ \E s \in Sessions : Submit(s)
    \/ \E s \in Sessions : DetectOk(s)
    \/ \E s \in Sessions : DetectFail(s)
    \/ \E s \in Sessions : ClassifyOk(s)
    \/ \E s \in Sessions : ClassifyFail(s)
    \/ \E s \in Sessions : Update(s)
    \/ \E s \in Sessions : Finish(s)

Spec == Init /\ [][Next]_vars

\* ------------------------------------------------------------ properties
\* The run of session s is under way or at its end.
Running(s) == pc[s] # "idle"

\* The run of session s has called an adapter or the store's write path.
Acted(s) == detect_calls[s] > 0 \/ predict_calls[s] > 0 \/ update_calls[s] > 0

\* The run of session s is past the guard and on its way to the adapters.
Analysing(s) == pc[s] \in {"detect", "classify", "update", "success", "aborted"}

\* Trimmed and lower-cased, the two names are the same.
SameName(a, b) == Lower(Strip(a)) = Lower(Strip(b))

\* When the run read the store, the store held a record for patient_id under
\* another name.
StoredMismatch(s) ==
    \E r \in rows_at_read[s] : ~SameName(r.name, patient_name[s])

\* The step is the upsert of session s.
Upserts(s) == pc[s] = "update" /\ pc'[s] = "success"

\* C1: a submission whose patient_id the store holds under a name that differs
\* (trimmed, case-insensitively) from the supplied one is blocked: the run calls
\* neither adapter, never writes the store and, when a name was supplied, ends
\* at the name-mismatch warning.
C1_IdentityGuard ==
    \A s \in Sessions :
        StoredMismatch(s) =>
            /\ ~Acted(s)
            /\ ~Analysing(s)
            /\ patient_name[s] # <<>> => pc[s] = "blocked"

C1_Witness ==
    \E s \in Sessions :
        /\ StoredMismatch(s)
        /\ patient_name[s] # <<>>
        /\ pc[s] = "blocked"
        /\ RowsOf(db, patient_id[s]) = rows_at_read[s]

\* C2: no session's upsert replaces a record whose stored name, at the moment
\* of the write, mismatches the name the session submitted.
C2_NoRacingWrite ==
    [][\A s \in Sessions :
          Upserts(s) =>
              \A r \in RowsOf(db, patient_id[s]) :
                  SameName(r.name, patient_name[s])]_vars

\* C3: a submission whose age is outside [18,45] calls no adapter and does not
\* write the store.
C3_AgeOutOfRange ==
    \A s \in Sessions :
        (patient_age[s] < MinAge \/ patient_age[s] > MaxAge) =>
            ~Acted(s) /\ ~Analysing(s)

C3_Witness ==
    \E s \in Sessions :
        /\ patient_age[s] > MaxAge
        /\ patient_id[s] # <<>>
        /\ patient_name[s] # <<>>
        /\ pc[s] = "age_warning"

C5_OneRecordPerPatient ==
    [][/\ \A r1, r2 \in db' : r1.patient_id = r2.patient_id => r1 = r2
       /\ \A s \in Sessions :
            Upserts(s) =>
                /\ Cardinality(RowsOf(db', patient_id[s])) = 1
                /\ \A r \in db \cup db' :
                     r.patient_id # patient_id[s] => (r \in db /\ r \in db')]_vars

C5_Witness ==
    \E s \in Sessions :
        /\ pc[s] = "success"
        /\ Cardinality(rows_at_read[s]) = 1
        /\ \A r \in rows_at_read[s] : r.name = patient_name[s] /\ r \notin db
        /\ Cardinality(RowsOf(db, patient_id[s])) = 1

\* C6: an analysis whose inference succeeds performs exactly one upsert, and
\* right after it the store holds for patient_id exactly the record with the
\* name and age read by the run, the label, confidence and follicle count the
\* run computed, and last_update the time of the call, as formatted.
C6_UpsertedRecord ==
    [][\A s \in Sessions :
          /\ update_calls'[s] <= 1
          /\ pc'[s] = "success" => update_calls'[s] = 1
          /\ Upserts(s) =>
               RowsOf(db', patient_id[s]) =
                   {[patient_id |-> patient_id[s],
                     name |-> patient_name[s],
                     age |-> patient_age[s],
                     last_prediction |-> result[s],
                     confidence |-> confidence[s],
                     follicle_count |-> follicle_count[s],
                     last_update |-> clock' \div TicksPerSecond]}]_vars

C6_Witness ==
    \E s \in Sessions :
        /\ pc[s] = "success"
        /\ update_calls[s] = 1
        /\ detect_calls[s] = 1
        /\ predict_calls[s] = 1
        /\ clock > 0
        /\ \E r \in db :
             /\ r.patient_id = patient_id[s]
             /\ r.name = patient_name[s]
             /\ r.age = patient_age[s]
             /\ r.follicle_count = follicle_count[s]
             /\ r.last_prediction = result[s]
             /\ r.last_update = clock \div TicksPerSecond

\* C7: when the detection adapter or the classification adapter fails, the run
\* is aborted and writes no record.
C7_FailureWritesNothing ==
    \A s \in Sessions :
        adapter_failed[s] => pc[s] = "aborted" /\ update_calls[s] = 0

C7_Witness ==
    \E s \in Sessions :
        /\ adapter_failed[s]
        /\ detect_calls[s] = 1
        /\ predict_calls[s] = 1
        /\ pc[s] = "aborted"

\* C8: the label is "PCOS Detected" exactly when the score is above 0.5 and
\* "No PCOS Detected" otherwise, and the confidence is the score times 100
\* whichever label was chosen.
C8_LabelAndConfidence ==
    \A s \in Sessions :
        pc[s] \in {"update", "success"} =>
            /\ prediction[s] > Threshold => result[s] = "PCOS Detected"
            /\ prediction[s] <= Threshold => result[s] = "No PCOS Detected"
            /\ confidence[s] = prediction[s] * Percent

C8_Witness ==
    \E s, t \in Sessions :
        /\ pc[s] = "update" /\ pc[t] = "update"
        /\ prediction[s] = Threshold /\ result[s] = "No PCOS Detected"
        /\ prediction[t] = Threshold + 1 /\ result[t] = "PCOS Detected"
        /\ confidence[s] = Threshold * Percent

\* C9: the comparison of a successful analysis is made against the record the
\* store held for patient_id just before the analysis's own upsert:
\* "consistent" when its label is the new label, "changed" when it differs,
\* and no comparison when there was no record.
C9_ComparesWithPriorWrite ==
    [][\A s \in Sessions :
          Upserts(s) =>
              comparison'[s] =
                  IF RowsOf(db, patient_id[s]) = {} THEN "none"
                  ELSE IF \E r \in RowsOf(db, patient_id[s]) :
                              r.last_prediction = result[s]
                       THEN "consistent"
                       ELSE "changed"]_vars

\* C10: a submission is not blocked by the identity guard when the store has
\* no record for patient_id or holds it under a name equal to the supplied one
\* up to letter case and surrounding whitespace; when its analysis succeeds the
\* record is upserted and compared with the record found.
C10_MatchingNameProceeds ==
    \A s \in Sessions :
        (Running(s) /\ ~StoredMismatch(s)) =>
            /\ pc[s] # "blocked"
            /\ (pc[s] = "success" /\ rows_at_read[s] # {}) =>
                 /\ update_calls[s] = 1
                 /\ \A r \in rows_at_read[s] :
                      comparison[s] = IF r.last_prediction = result[s]
                                      THEN "consistent" ELSE "changed"

C10_Witness ==
    \E s \in Sessions :
        /\ pc[s] = "success"
        /\ \E r \in rows_at_read[s] :
             r.name # patient_name[s] /\ SameName(r.name, patient_name[s])
        /\ comparison[s] \in {"consistent", "changed"}
        /\ \E r \in db : r.patient_id = patient_id[s] /\ r.name = patient_name[s]

====
